---- MODULE Spec2Model ----
(***************************************************************************)
(* Model of graphical_color_replacer.py: discovery of colour tokens in a   *)
(* text file, normalisation of a token to a 6-digit hex code, the          *)
(* replacement map built by picking colours, and the save step that        *)
(* substitutes every mapped token and writes "<stem>-modified<suffix>".    *)
(*                                                                         *)
(* A Python str is modelled as a sequence of one-character strings, so     *)
(* that the regular expressions are modelled by what they match.           *)
(***************************************************************************)
EXTENDS Integers, Sequences, FiniteSets, TLC

VARIABLES
    pc,               \* position of the program: see the three specifications
    file_path,        \* self.file_path
    fs,               \* the file system: path -> file
    original_content, \* self.original_content
    found_colors,     \* self.found_colors
    replacements,     \* self.replacements, a dict in insertion order
    swatch,           \* bg colour of the swatch of each row
    new_color_tuple,  \* hex returned by the last askcolor, <<>> when None
    last_write,       \* key of the latest assignment to self.replacements
    color_string,     \* argument of color_to_hex
    initial_hex       \* value returned by color_to_hex

vars == <<pc, file_path, fs, original_content, found_colors, replacements,
          swatch, new_color_tuple, last_write, color_string, initial_hex>>

----------------------------------------------------------------------------
(* Characters *)

UpperLetters == <<"A", "B", "C", "D", "E", "F", "G", "H", "I", "J", "K", "L", "M", "N", "O", "P", "Q", "R", "S", "T", "U", "V", "W", "X", "Y", "Z">>

LowerLetters == <<"a", "b", "c", "d", "e", "f", "g", "h", "i", "j", "k", "l", "m", "n", "o", "p", "q", "r", "s", "t", "u", "v", "w", "x", "y", "z">>

DigitChars == <<"0", "1", "2", "3", "4", "5", "6", "7", "8", "9">>

\* The characters of the model in code point order.
AsciiOrder == <<" ", "#", ",", "-", ".", "0", "1", "2", "3", "4", "5", "6", "7", "8", "9", ":", ";", "A", "B", "C", "D", "E", "F", "G", "H", "I", "J", "K", "L", "M", "N", "O", "P", "Q", "R", "S", "T", "U", "V", "W", "X", "Y", "Z", "_", "a", "b", "c", "d", "e", "f", "g", "h", "i", "j", "k", "l", "m", "n", "o", "p", "q", "r", "s", "t", "u", "v", "w", "x", "y", "z">>

Range(s) == {s[i] : i \in 1..Len(s)}

Chars == Range(AsciiOrder)

OrdOf == [c \in Chars |-> CHOOSE i \in 1..Len(AsciiOrder) : AsciiOrder[i] = c]

Ord(c) == OrdOf[c]

Letters == Range(UpperLetters) \cup Range(LowerLetters)

IsLetter(c) == c \in Letters

\* [a-fA-F0-9]
HexDigits == Range(DigitChars) \cup {"a", "b", "c", "d", "e", "f", "A", "B", "C", "D", "E", "F"}

IsHexDigit(c) == c \in HexDigits

\* \w
WordChars == Letters \cup Range(DigitChars) \cup {"_"}

IsWordChar(c) == c \in WordChars

LowerOf ==
    [c \in Chars |->
        IF c \in Range(UpperLetters)
        THEN LowerLetters[CHOOSE i \in 1..26 : UpperLetters[i] = c]
        ELSE c]

Lower(c) == LowerOf[c]

\* str.lower
str_lower(s) == [i \in 1..Len(s) |-> Lower(s[i])]

\* str.isalpha
isalpha(s) == Len(s) > 0 /\ \A i \in 1..Len(s) : IsLetter(s[i])

\* str.startswith
startswith(s, p) == Len(s) >= Len(p) /\ SubSeq(s, 1, Len(p)) = p

\* s < t for Python strings: lexicographic by code point.
StrLess(s, t) ==
    \E k \in 1..(Len(t)) :
        /\ k <= Len(s) + 1
        /\ \A j \in 1..(k - 1) : s[j] = t[j]
        /\ \/ k = Len(s) + 1
           \/ Ord(s[k]) < Ord(t[k])

----------------------------------------------------------------------------
(* webcolors: a part of the CSS3 table, in the order of its keys *)

CSS3_NAMES_TO_HEX == <<
    << <<"a", "q", "u", "a">>, <<"#", "0", "0", "f", "f", "f", "f">> >>,
    << <<"a", "q", "u", "a", "m", "a", "r", "i", "n", "e">>, <<"#", "7", "f", "f", "f", "d", "4">> >>,
    << <<"b", "l", "u", "e">>, <<"#", "0", "0", "0", "0", "f", "f">> >>,
    << <<"r", "e", "d">>, <<"#", "f", "f", "0", "0", "0", "0">> >>,
    << <<"t", "a", "n">>, <<"#", "d", "2", "b", "4", "8", "c">> >> >>

all_names == [k \in 1..Len(CSS3_NAMES_TO_HEX) |-> CSS3_NAMES_TO_HEX[k][1]]

White == <<"#", "F", "F", "F", "F", "F", "F">>

\* webcolors.name_to_hex: looks the lower-cased name up; <<>> stands for
\* the ValueError of an unknown name.
name_to_hex(name) ==
    IF \E k \in 1..Len(CSS3_NAMES_TO_HEX) : CSS3_NAMES_TO_HEX[k][1] = str_lower(name)
    THEN CSS3_NAMES_TO_HEX[CHOOSE k \in 1..Len(CSS3_NAMES_TO_HEX) : CSS3_NAMES_TO_HEX[k][1] = str_lower(name)][2]
    ELSE <<>>

\* color_to_hex that returns every '#' string as it is
color_to_hex_as_is(s) ==
    IF startswith(s, <<"#">>)
    THEN s
    ELSE IF name_to_hex(s) # <<>> THEN name_to_hex(s) ELSE White

color_to_hex(s) ==
    IF startswith(s, <<"#">>)
    THEN IF Len(s) = 4
         THEN <<"#", s[2], s[2], s[3], s[3], s[4], s[4]>>
         ELSE s
    ELSE IF name_to_hex(s) # <<>> THEN name_to_hex(s) ELSE White

----------------------------------------------------------------------------
(* Regular expressions.  A position i is the place before text[i]. *)

\* \b at position i
WordBoundary(text, i) ==
    LET before == i > 1 /\ i - 1 <= Len(text) /\ IsWordChar(text[i - 1])
        after  == i >= 1 /\ i <= Len(text) /\ IsWordChar(text[i])
    IN  before # after

\* re.escape(pat) with re.IGNORECASE matches at position i
LiteralAt(pat, text, i) ==
    /\ i + Len(pat) - 1 <= Len(text)
    /\ \A j \in 1..Len(pat) : Lower(text[i + j - 1]) = Lower(pat[j])

HexDigitsAt(text, i, n) ==
    /\ i + n - 1 <= Len(text)
    /\ \A j \in i..(i + n - 1) : IsHexDigit(text[j])

\* length of the match of #(?:[a-fA-F0-9]{3}){1,2} at position i, 0 if none
HexMatchLen(text, i) ==
    IF i <= Len(text) /\ text[i] = "#" /\ HexDigitsAt(text, i + 1, 3)
    THEN IF HexDigitsAt(text, i + 4, 3) THEN 7 ELSE 4
    ELSE 0

NameAt(name, text, i) ==
    /\ WordBoundary(text, i)
    /\ LiteralAt(name, text, i)
    /\ WordBoundary(text, i + Len(name))

\* the alternation of the names without the word boundaries around it
NameMatchLen_unbounded(text, i) ==
    LET ok == {k \in 1..Len(all_names) : LiteralAt(all_names[k], text, i)}
    IN  IF ok = {} THEN 0
        ELSE Len(all_names[CHOOSE k \in ok : \A m \in ok : k <= m])

\* length of the match of \b(name1|name2|...)\b at position i, 0 if none:
\* the first alternative for which the whole pattern matches
NameMatchLen(text, i) ==
    LET ok == {k \in 1..Len(all_names) : NameAt(all_names[k], text, i)}
    IN  IF ok = {} THEN 0
        ELSE Len(all_names[CHOOSE k \in ok : \A m \in ok : k <= m])

RECURSIVE findall_hex(_, _)
findall_hex(text, i) ==
    IF i > Len(text) THEN {}
    ELSE LET n == HexMatchLen(text, i)
         IN  IF n > 0
             THEN {SubSeq(text, i, i + n - 1)} \cup findall_hex(text, i + n)
             ELSE findall_hex(text, i + 1)

RECURSIVE findall_names(_, _)
findall_names(text, i) ==
    IF i > Len(text) THEN {}
    ELSE LET n == NameMatchLen(text, i)
         IN  IF n > 0
             THEN {SubSeq(text, i, i + n - 1)} \cup findall_names(text, i + n)
             ELSE findall_names(text, i + 1)

\* the pattern without the word boundaries around an alphabetic key
PatternMatchLen_unbounded(old, text, i) ==
    IF LiteralAt(old, text, i) THEN Len(old) ELSE 0

\* length of the match at position i of the pattern built for the key old
PatternMatchLen(old, text, i) ==
    IF isalpha(old)
    THEN IF NameAt(old, text, i) THEN Len(old) ELSE 0
    ELSE IF LiteralAt(old, text, i) THEN Len(old) ELSE 0

\* re.sub(pattern of old, new, text, flags=re.IGNORECASE), from position i
RECURSIVE re_sub(_, _, _, _)
re_sub(old, new, text, i) ==
    IF i > Len(text) THEN <<>>
    ELSE LET n == PatternMatchLen(old, text, i)
         IN  IF n > 0
             THEN new \o re_sub(old, new, text, i + n)
             ELSE <<text[i]>> \o re_sub(old, new, text, i + 1)

----------------------------------------------------------------------------
(* sorted(list(found_hex | found_names), key=str.lower) *)

SortKey(s) == str_lower(s)

\* insert x behind the elements whose key is not greater (a stable sort)
RECURSIVE InsertSorted(_, _)
InsertSorted(sorted, x) ==
    IF sorted = <<>> THEN <<x>>
    ELSE IF StrLess(SortKey(x), SortKey(Head(sorted)))
         THEN <<x>> \o sorted
         ELSE <<Head(sorted)>> \o InsertSorted(Tail(sorted), x)

RECURSIVE sorted_by_lower(_)
sorted_by_lower(list) ==
    IF list = <<>> THEN <<>>
    ELSE InsertSorted(sorted_by_lower(SubSeq(list, 1, Len(list) - 1)), list[Len(list)])

\* the orders in which a set can be iterated
Listings(S) ==
    {l \in [1..Cardinality(S) -> S] : \A i, j \in 1..Cardinality(S) : i # j => l[i] # l[j]}

\* the values self.found_colors can take for a text
Discover(text) ==
    LET found_hex   == findall_hex(text, 1)
        found_names == findall_names(text, 1)
    IN  {sorted_by_lower(l) : l \in Listings(found_hex \cup found_names)}

----------------------------------------------------------------------------
(* pathlib *)

\* str.rfind of a character: the last index, 0 if there is none
rfind(name, c) ==
    LET at == {i \in 1..Len(name) : name[i] = c}
    IN  IF at = {} THEN 0 ELSE CHOOSE i \in at : \A j \in at : j <= i

\* PurePath.suffix
suffix(name) ==
    LET i == rfind(name, ".")
    IN  IF 1 < i /\ i < Len(name) THEN SubSeq(name, i, Len(name)) ELSE <<>>

\* PurePath.stem
stem(name) ==
    LET i == rfind(name, ".")
    IN  IF 1 < i /\ i < Len(name) THEN SubSeq(name, 1, i - 1) ELSE name

\* PurePath.with_name
with_name(path, name) == [path EXCEPT !.name = name]

new_file_path(path) ==
    with_name(path, stem(path.name) \o <<"-", "m", "o", "d", "i", "f", "i", "e", "d">> \o suffix(path.name))

NoFile == [exists |-> FALSE, text |-> <<>>]

File(text) == [exists |-> TRUE, text |-> text]

----------------------------------------------------------------------------
(* dict: a sequence of <<key, value>> in insertion order *)

keys(d) == {d[i][1] : i \in 1..Len(d)}

dict_get(d, k) == d[CHOOSE i \in 1..Len(d) : d[i][1] = k][2]

\* d[k] = v: a key that is present keeps its place
dict_set(d, k, v) ==
    IF k \in keys(d)
    THEN [i \in 1..Len(d) |-> IF d[i][1] = k THEN <<k, v>> ELSE d[i]]
    ELSE Append(d, <<k, v>>)

----------------------------------------------------------------------------
(* Inputs *)

T_spec == <<"c", "o", "l", "o", "r", ":", " ", "#", "f", "f", "f", ";", " ", "b", "o", "r", "d", "e", "r", ":", " ", "r", "e", "d", ";", " ", "b", "a", "c", "k", "g", "r", "o", "u", "n", "d", ":", " ", "#", "F", "F", "0", "0", "F", "F", ";">>

T_prefix == <<"b", "g", ":", "#", "f", "f", "f", ";", " ", "x", ":", "#", "F", "F", "F", "A", "B", "C">>

T_words == <<"R", "e", "d", " ", "b", "o", "x", ",", " ", "r", "e", "d", " ", "l", "i", "n", "e", ",", " ", "c", "r", "e", "d", "i", "t", "e", "d">>

T_inside == <<"c", "r", "e", "d", "i", "t", " ", "b", "o", "r", "e", "d">>

T_chain == <<"#", "f", "f", "f", " ", "#", "0", "0", "0", "0", "0", "0">>

T_twice == <<"#", "f", "f", "f", "-", "#", "f", "f", "f">>

T_case == <<"R", "E", "D", " ", "R", "e", "d", " ", "r", "e", "d">>

T_under == <<"r", "e", "d", "_", "b", "o", "x", " ", "r", "e", "d", "9", " ", "#", "r", "e", "d", " ", "t", "a", "n">>

T_aqua == <<"a", "q", "u", "a", " ", "a", "q", "u", "a", "m", "a", "r", "i", "n", "e", " ", "B", "l", "u", "e">>

\* the texts of the files a session is run on
Texts == {<<>>, T_spec, T_prefix, T_words, T_inside, T_chain, T_twice, T_case, T_under, T_aqua}

FilePaths ==
    {[parent |-> "/w", name |-> n] :
        n \in {<<"s", "t", "y", "l", "e", ".", "c", "s", "s">>,
               <<"M", "a", "k", "e", "f", "i", "l", "e">>,
               <<".", "c", "o", "l", "o", "r", "s">>}}

\* what the output path holds before the session
Stale == <<"o", "l", "d">>

\* the hex strings colorchooser.askcolor returns
PickerColors == {<<"#", "0", "0", "0", "0", "0", "0">>, <<"#", "1", "2", "3", "4", "5", "6">>}

----------------------------------------------------------------------------
(* The session: ColorEditorApp *)

Init ==
    /\ pc = "mainloop"
    /\ file_path \in FilePaths
    /\ original_content \in Texts
    /\ fs \in {[p \in {file_path, new_file_path(file_path)} |->
                   IF p = file_path THEN File(original_content) ELSE before] :
               before \in {NoFile, File(Stale)}}
    /\ found_colors \in Discover(original_content)
    /\ replacements = <<>>
    /\ swatch = [t \in Range(found_colors) |-> color_to_hex(t)]
    /\ new_color_tuple = <<>>
    /\ last_write = <<>>
    /\ color_string = <<>>
    /\ initial_hex = <<>>

\* _on_swatch_click that keys the map by the lower-cased token
OnSwatchClick_lowerkey(original_color, picked) ==
    /\ pc = "mainloop"
    /\ new_color_tuple' = picked
    /\ IF picked # <<>>
       THEN /\ replacements' = dict_set(replacements, str_lower(original_color), picked)
            /\ swatch' = [swatch EXCEPT ![original_color] = picked]
            /\ last_write' = str_lower(original_color)
       ELSE UNCHANGED <<replacements, swatch, last_write>>
    /\ UNCHANGED <<pc, file_path, fs, original_content, found_colors, color_string, initial_hex>>

\* _on_swatch_click without the test of the picker's result
OnSwatchClick_unguarded(original_color, picked) ==
    /\ pc = "mainloop"
    /\ new_color_tuple' = picked
    /\ replacements' = dict_set(replacements, original_color, picked)
    /\ swatch' = [swatch EXCEPT ![original_color] = picked]
    /\ last_write' = original_color
    /\ UNCHANGED <<pc, file_path, fs, original_content, found_colors, color_string, initial_hex>>

\* _on_swatch_click(original_color, ...) where askcolor returns picked
OnSwatchClick(original_color, picked) ==
    /\ pc = "mainloop"
    /\ new_color_tuple' = picked
    /\ IF picked # <<>>
       THEN /\ replacements' = dict_set(replacements, original_color, picked)
            /\ swatch' = [swatch EXCEPT ![original_color] = picked]
            /\ last_write' = original_color
       ELSE UNCHANGED <<replacements, swatch, last_write>>
    /\ UNCHANGED <<pc, file_path, fs, original_content, found_colors, color_string, initial_hex>>

\* the click handlers bound to the rows of the found colours
click_handler ==
    \E original_color \in Range(found_colors) :
        \E picked \in PickerColors \cup {<<>>} :
            OnSwatchClick(original_color, picked)

\* the loop run over the entries from the last one to the first
RECURSIVE Substitute_reversed(_, _, _)
Substitute_reversed(content, items, i) ==
    IF i > Len(items) THEN content
    ELSE Substitute_reversed(
             re_sub(items[Len(items) + 1 - i][1], items[Len(items) + 1 - i][2], content, 1),
             items, i + 1)

\* the loop of _save_and_exit over self.replacements.items(), from entry i
RECURSIVE Substitute(_, _, _)
Substitute(content, items, i) ==
    IF i > Len(items) THEN content
    ELSE Substitute(re_sub(items[i][1], items[i][2], content, 1), items, i + 1)

\* _save_and_exit without the early return on an empty map
SaveAndExit_always_writes ==
    /\ pc = "mainloop"
    /\ fs' = [fs EXCEPT ![new_file_path(file_path)] =
                   File(Substitute(original_content, replacements, 1))]
    /\ pc' = "destroyed"
    /\ UNCHANGED <<file_path, original_content, found_colors, replacements, swatch,
                   new_color_tuple, last_write, color_string, initial_hex>>

\* _save_and_exit
SaveAndExit ==
    /\ pc = "mainloop"
    /\ IF replacements = <<>>
       THEN UNCHANGED fs
       ELSE fs' = [fs EXCEPT ![new_file_path(file_path)] =
                       File(Substitute(original_content, replacements, 1))]
    /\ pc' = "destroyed"
    /\ UNCHANGED <<file_path, original_content, found_colors, replacements, swatch,
                   new_color_tuple, last_write, color_string, initial_hex>>

Next == click_handler \/ SaveAndExit

Spec == Init /\ [][Next]_vars

----------------------------------------------------------------------------
(* The file written by the save step *)

saved == pc = "destroyed" /\ replacements # <<>>

output == fs[new_file_path(file_path)].text

----------------------------------------------------------------------------
(* Replacement map *)

\* C3: in every reachable state of a session every key of the replacement
\* map is a token of the discovery result of the loaded file.
KeysWereDiscovered == keys(replacements) \subseteq Range(found_colors)

KeysWereDiscovered_witness ==
    /\ pc = "destroyed"
    /\ Len(replacements) = 2
    /\ new_color_tuple = <<>>

\* C4: the replacement map starts empty, and a click whose picker returns
\* no selection leaves the map as it was: no entry added, none changed.
CancelKeepsMap ==
    /\ replacements = <<>>
    /\ [][new_color_tuple' = <<>> => replacements' = replacements]_vars

CancelKeepsMap_witness ==
    /\ pc = "mainloop"
    /\ new_color_tuple = <<>>
    /\ replacements # <<>>

\* C5: a save with an empty map ends the session and leaves the file
\* system as it was; the file system changes only in a step that starts
\* with at least one entry in the map.
EmptySaveWritesNothing ==
    [][/\ (replacements = <<>> /\ pc' # pc) => (pc' = "destroyed" /\ fs' = fs)
       /\ fs' # fs => replacements # <<>>]_vars

EmptySaveWritesNothing_witness ==
    /\ pc = "destroyed"
    /\ replacements = <<>>
    /\ fs[new_file_path(file_path)] = NoFile

----------------------------------------------------------------------------
(* Substitution *)

\* the end of the run of word characters that starts at position i
RECURSIVE WordEnd(_, _)
WordEnd(text, i) ==
    IF i < Len(text) /\ text[i + 1] \in WordChars THEN WordEnd(text, i + 1) ELSE i

\* text from position i on, with every maximal run of word characters that
\* spells name in some casing replaced by value
RECURSIVE WordwiseReplace(_, _, _, _)
WordwiseReplace(text, name, value, i) ==
    IF i > Len(text) THEN <<>>
    ELSE IF text[i] \in WordChars
         THEN LET j == WordEnd(text, i)
                  word == SubSeq(text, i, j)
              IN  (IF str_lower(word) = str_lower(name) THEN value ELSE word)
                      \o WordwiseReplace(text, name, value, j + 1)
         ELSE <<text[i]>> \o WordwiseReplace(text, name, value, i + 1)

\* WordwiseReplace for each entry of the map in turn
RECURSIVE WordwiseAll(_, _, _)
WordwiseAll(text, items, i) ==
    IF i > Len(items) THEN text
    ELSE WordwiseAll(WordwiseReplace(text, items[i][1], items[i][2], 1), items, i + 1)

NamesOnly == \A k \in keys(replacements) : isalpha(k)

\* C7: a mapped colour name is replaced at every whole-word occurrence, in
\* any casing, by its mapped hex, and is left alone inside a longer word;
\* {"red": "#123456"} over "Red box, red line, credited" gives
\* "#123456 box, #123456 line, credited".
NamesReplacedAsWholeWords ==
    (saved /\ NamesOnly) =>
        /\ output = WordwiseAll(original_content, replacements, 1)
        /\ (/\ original_content = T_words
            /\ replacements = << << <<"r", "e", "d">>, <<"#", "1", "2", "3", "4", "5", "6">> >> >>)
           => output = <<"#", "1", "2", "3", "4", "5", "6", " ", "b", "o", "x", ",", " ", "#", "1", "2", "3", "4", "5", "6", " ", "l", "i", "n", "e", ",", " ", "c", "r", "e", "d", "i", "t", "e", "d">>

NamesReplacedAsWholeWords_witness ==
    /\ saved
    /\ original_content = T_words
    /\ replacements = << << <<"r", "e", "d">>, <<"#", "1", "2", "3", "4", "5", "6">> >> >>
    /\ output = <<"#", "1", "2", "3", "4", "5", "6", " ", "b", "o", "x", ",", " ", "#", "1", "2", "3", "4", "5", "6", " ", "l", "i", "n", "e", ",", " ", "c", "r", "e", "d", "i", "t", "e", "d">>

\* the number of hex digits from position i on
RECURSIVE HexRun(_, _)
HexRun(text, i) ==
    IF i <= Len(text) /\ text[i] \in HexDigits THEN 1 + HexRun(text, i + 1) ELSE 0

\* text from position i on, with every hex code ('#' and the 6 hex digits
\* behind it, or the 3 when there are fewer than 6) that spells key in
\* some casing replaced by value
RECURSIVE HexCodeReplace(_, _, _, _)
HexCodeReplace(text, key, value, i) ==
    IF i > Len(text) THEN <<>>
    ELSE LET run == IF text[i] = "#" THEN HexRun(text, i + 1) ELSE 0
             n   == IF run >= 6 THEN 7 ELSE IF run >= 3 THEN 4 ELSE 0
         IN  IF n = 0
             THEN <<text[i]>> \o HexCodeReplace(text, key, value, i + 1)
             ELSE (IF str_lower(SubSeq(text, i, i + n - 1)) = str_lower(key)
                   THEN value
                   ELSE SubSeq(text, i, i + n - 1))
                      \o HexCodeReplace(text, key, value, i + n)

\* C2: substituting a 3-digit hex token replaces the occurrences of that
\* token only and leaves a longer hex code that starts with the same digits
\* untouched; {"#fff": "#000000"} over "bg:#fff; x:#FFFABC" gives
\* "bg:#000000; x:#FFFABC".
ShortHexLeavesLongHex ==
    (/\ saved
     /\ Len(replacements) = 1
     /\ Len(replacements[1][1]) = 4
     /\ replacements[1][1][1] = "#")
    =>
        /\ output = HexCodeReplace(original_content, replacements[1][1], replacements[1][2], 1)
        /\ (/\ original_content = T_prefix
            /\ replacements = << << <<"#", "f", "f", "f">>, <<"#", "0", "0", "0", "0", "0", "0">> >> >>)
           => output = <<"b", "g", ":", "#", "0", "0", "0", "0", "0", "0", ";", " ", "x", ":", "#", "F", "F", "F", "A", "B", "C">>

\* the orders in which the entries of a map can be applied
Orders(items) ==
    {[i \in 1..Len(items) |-> items[l[i]]] : l \in Listings(1..Len(items))}

\* C1: the text written by the save step is the same for every order in
\* which the entries of the map are applied.
OrderDoesNotMatter ==
    saved => \A items \in Orders(replacements) :
                 Substitute(original_content, items, 1) = output

\* the first entry of the map whose pattern matches at position i, 0 if none
FirstEntryAt(items, text, i) ==
    LET at == {k \in 1..Len(items) : PatternMatchLen(items[k][1], text, i) > 0}
    IN  IF at = {} THEN 0 ELSE CHOOSE k \in at : \A m \in at : k <= m

\* text from position i on, with the mapped hex in place of every occurrence
\* of a mapped token in text
RECURSIVE InPlace(_, _, _)
InPlace(text, items, i) ==
    IF i > Len(text) THEN <<>>
    ELSE LET k == FirstEntryAt(items, text, i)
         IN  IF k = 0
             THEN <<text[i]>> \o InPlace(text, items, i + 1)
             ELSE items[k][2] \o InPlace(text, items, i + Len(items[k][1]))

\* "{original-stem}-modified{original-suffix}" for the file names of FilePaths
ModifiedName(name) ==
    IF name = <<"s", "t", "y", "l", "e", ".", "c", "s", "s">>
    THEN <<"s", "t", "y", "l", "e", "-", "m", "o", "d", "i", "f", "i", "e", "d", ".", "c", "s", "s">>
    ELSE name \o <<"-", "m", "o", "d", "i", "f", "i", "e", "d">>

\* the save step writes the sibling path, over what it held, and leaves the
\* source file and the text in memory alone
SavedBesideSource ==
    saved =>
        /\ fs[[parent |-> file_path.parent, name |-> ModifiedName(file_path.name)]].exists
        /\ fs[[parent |-> file_path.parent, name |-> ModifiedName(file_path.name)]].text # Stale
        /\ fs[file_path] = File(original_content)

\* C6: a save with a non-empty map writes the substituted text to
\* {stem}-modified{suffix} beside the source, over what that path held; the
\* output has the chosen hex in place of every occurrence of each mapped
\* token; the source file and the original text in memory are unchanged.
SaveWritesSubstitutedText ==
    saved =>
        /\ SavedBesideSource
        /\ fs[[parent |-> file_path.parent, name |-> ModifiedName(file_path.name)]]
               = File(InPlace(original_content, replacements, 1))

\* the entries that are a later casing of a name an earlier entry spells
LaterVariants(items) ==
    {j \in 1..Len(items) :
        /\ isalpha(items[j][1])
        /\ \E i \in 1..(j - 1) : str_lower(items[i][1]) = str_lower(items[j][1])}

\* the map without the entries of LaterVariants
WithoutLaterVariants(items) ==
    LET keep == {j \in 1..Len(items) : j \notin LaterVariants(items)}
        F[j \in 0..Len(items)] ==
            IF j = 0 THEN <<>>
            ELSE IF j \in keep THEN Append(F[j - 1], items[j]) ELSE F[j - 1]
    IN  F[Len(items)]

OneNameOnly ==
    /\ NamesOnly
    /\ \A k \in keys(replacements) : str_lower(k) = str_lower(replacements[1][1])

----------------------------------------------------------------------------
(* Discovery on its own: the constructor run on a file *)

MaxScanLen == 4

MaxHexRun == 7

ScanAlphabet == {"#", "a", "F", "r", "e", "d", "R", " "}

StringsOver(alphabet, n) == UNION {[1..k -> alphabet] : k \in 0..n}

\* '#' and up to MaxHexRun hex digits, alone or inside other text
HexRunTexts ==
    {before \o <<"#">> \o run \o after :
        before \in {<<>>, <<"x">>},
        run \in StringsOver({"a", "F"}, MaxHexRun),
        after \in {<<>>, <<"g">>, <<"#", "F", "a", "a">>}}

ScanTexts == Texts \cup StringsOver(ScanAlphabet, MaxScanLen) \cup HexRunTexts

ScanPath == [parent |-> "/w", name |-> <<"s", "t", "y", "l", "e", ".", "c", "s", "s">>]

InitScan ==
    /\ pc = "new"
    /\ file_path = ScanPath
    /\ fs \in {[p \in {file_path} |-> File(text)] : text \in ScanTexts}
    /\ original_content = <<>>
    /\ found_colors = <<>>
    /\ replacements = <<>>
    /\ swatch = <<>>
    /\ new_color_tuple = <<>>
    /\ last_write = <<>>
    /\ color_string = <<>>
    /\ initial_hex = <<>>

\* ColorEditorApp.__init__
Construct ==
    /\ pc = "new"
    /\ original_content' = fs[file_path].text
    /\ replacements' = <<>>
    /\ found_colors' \in Discover(original_content')
    /\ swatch' = [t \in Range(found_colors') |-> color_to_hex(t)]
    /\ pc' = "mainloop"
    /\ UNCHANGED <<file_path, fs, new_color_tuple, last_write, color_string, initial_hex>>

NextScan == Construct

DiscoverySpec == InitScan /\ [][NextScan]_vars

\* the stretches of text that are a name of the table, in some casing, with
\* no word character on either side
WholeWordNames(text) ==
    {SubSeq(text, p[1], p[2]) :
        p \in {q \in (1..Len(text)) \X (1..Len(text)) :
                  /\ q[1] <= q[2]
                  /\ str_lower(SubSeq(text, q[1], q[2])) \in Range(all_names)
                  /\ (q[1] = 1 \/ text[q[1] - 1] \notin WordChars)
                  /\ (q[2] = Len(text) \/ text[q[2] + 1] \notin WordChars)}}

\* '#' with the hex digits behind it, where these are exactly 3 or exactly 6
HexCodesExact(text) ==
    {SubSeq(text, i, i + HexRun(text, i + 1)) :
        i \in {k \in 1..Len(text) : text[k] = "#" /\ HexRun(text, k + 1) \in {3, 6}}}

\* '#' with the 6 hex digits behind it where there are at least 6, with the
\* 3 behind it where there are at least 3
HexCodesLeading(text) ==
    {SubSeq(text, i, i + (IF HexRun(text, i + 1) >= 6 THEN 6 ELSE 3)) :
        i \in {k \in 1..Len(text) : text[k] = "#" /\ HexRun(text, k + 1) >= 3}}

SortedByLower(list) ==
    \A i, j \in 1..Len(list) :
        i < j => /\ list[i] # list[j]
                 /\ ~StrLess(str_lower(list[j]), str_lower(list[i]))

DiscoveryExamples ==
    /\ original_content = T_spec =>
           found_colors = << <<"#", "F", "F", "0", "0", "F", "F">>, <<"#", "f", "f", "f">>, <<"r", "e", "d">> >>
    /\ original_content = T_inside => found_colors = <<>>

\* C8 as stated: discovery returns, sorted by lower-cased key and without
\* duplicates, exactly the '#' codes of exactly 3 or exactly 6 hex digits
\* and the whole-word names; a name inside a longer word is not returned.
DiscoveryFindsExactHexCodes ==
    pc = "mainloop" =>
        /\ SortedByLower(found_colors)
        /\ Range(found_colors) = HexCodesExact(original_content) \cup WholeWordNames(original_content)
        /\ DiscoveryExamples

\* C8 as amended: the hex codes are '#' with the next 6 hex digits where at
\* least 6 follow and with the next 3 where at least 3 follow, whatever
\* comes behind them.
DiscoveryFindsLeadingHexCodes ==
    pc = "mainloop" =>
        /\ SortedByLower(found_colors)
        /\ Range(found_colors) = HexCodesLeading(original_content) \cup WholeWordNames(original_content)
        /\ DiscoveryExamples

DiscoveryFindsLeadingHexCodes_witness ==
    /\ pc = "mainloop"
    /\ original_content = T_spec
    /\ found_colors = << <<"#", "F", "F", "0", "0", "F", "F">>, <<"#", "f", "f", "f">>, <<"r", "e", "d">> >>

----------------------------------------------------------------------------
(* Normalisation on its own: color_to_hex called on a string *)

MaxNameLen == 4

NormAlphabet == {"#", "a", "B", "9", "r", "e", "D"}

NormInputs ==
    StringsOver(NormAlphabet, MaxNameLen)
    \cup {<<"#">> \o h : h \in [1..6 -> {"a", "F", "0"}]}
    \cup {[i \in 1..Len(all_names[k]) |-> IF i \in up THEN UpperLetters[Ord(all_names[k][i]) - Ord("a") + 1] ELSE all_names[k][i]] :
             k \in {1, 3, 4, 5}, up \in SUBSET (1..4)}
    \cup {<<"n", "o", "t", "-", "a", "-", "c", "o", "l", "o", "r">>,
          <<"a", "q", "u", "a", "m", "a", "r", "i", "n", "e">>,
          <<"#", "a", "b", "c">>, <<"#", "A", "A", "B", "B", "C", "C">>}

InitNormalize ==
    /\ pc = "call"
    /\ file_path = ScanPath
    /\ fs = [p \in {file_path} |-> File(<<>>)]
    /\ original_content = <<>>
    /\ found_colors = <<>>
    /\ replacements = <<>>
    /\ swatch = <<>>
    /\ new_color_tuple = <<>>
    /\ last_write = <<>>
    /\ color_string \in NormInputs
    /\ initial_hex = <<>>

\* initial_hex = color_to_hex(original_color)
Normalize ==
    /\ pc = "call"
    /\ initial_hex' = color_to_hex(color_string)
    /\ pc' = "returned"
    /\ UNCHANGED <<file_path, fs, original_content, found_colors, replacements, swatch,
                   new_color_tuple, last_write, color_string>>

NextNormalize == Normalize

NormalizeSpec == InitNormalize /\ [][NextNormalize]_vars

IsHexCode(s, n) == Len(s) = n + 1 /\ s[1] = "#" /\ \A i \in 2..(n + 1) : s[i] \in HexDigits

IsKnownName(s) == \E k \in 1..Len(CSS3_NAMES_TO_HEX) : CSS3_NAMES_TO_HEX[k][1] = str_lower(s)

\* C9: color_to_hex of a recognized token is '#' and 6 hex digits: the
\* digits of a 3-digit code doubled, a 6-digit code as it is, the table's
\* hex for a known name in any casing; an unknown name gives "#FFFFFF".
NormalizedToSixDigits ==
    pc = "returned" =>
        /\ IsHexCode(color_string, 3) =>
               initial_hex = <<"#">> \o [i \in 1..6 |-> color_string[2 + ((i - 1) \div 2)]]
        /\ IsHexCode(color_string, 6) => initial_hex = color_string
        /\ IsKnownName(color_string) =>
               \E k \in 1..Len(CSS3_NAMES_TO_HEX) :
                   /\ CSS3_NAMES_TO_HEX[k][1] = str_lower(color_string)
                   /\ initial_hex = CSS3_NAMES_TO_HEX[k][2]
        /\ (IsHexCode(color_string, 3) \/ IsHexCode(color_string, 6) \/ IsKnownName(color_string)) =>
               IsHexCode(initial_hex, 6)
        /\ (~IsKnownName(color_string) /\ ~startswith(color_string, <<"#">>)) =>
               initial_hex = <<"#", "F", "F", "F", "F", "F", "F">>
        /\ color_string = <<"#", "a", "b", "c">> => initial_hex = <<"#", "a", "a", "b", "b", "c", "c">>
        /\ color_string = <<"r", "e", "d">> => initial_hex = <<"#", "f", "f", "0", "0", "0", "0">>

NormalizedToSixDigits_witness ==
    /\ pc = "returned"
    /\ color_string = <<"#", "a", "b", "c">>
    /\ initial_hex = <<"#", "a", "a", "b", "b", "c", "c">>

====
